---------------------------- MODULE Spec2Model ----------------------------
(***************************************************************************)
(* build-index-html.py: the PEP 503 index page of the wheels found in      *)
(* target/wheels.  Text is modelled as sequences of one-character strings, *)
(* so that quoting, escaping, formatting and joining are computed          *)
(* character by character as the script computes them.                     *)
(***************************************************************************)
EXTENDS Integers, Sequences, FiniteSets, TLC

\* The largest number of directory entries of the directories explored.
MaxFiles == 3

(***************************************************************************)
(* Characters                                                              *)
(***************************************************************************)

\* The printable ASCII characters, code points 32..126, in code point order.
\* A TLA+ string cannot hold the grave accent (code 96): "GRAVE" stands for it.
Ascii ==
    <<" ", "!", "\"", "#", "$", "%", "&", "'", "(", ")", "*", "+", ",", "-", ".", "/",
      "0", "1", "2", "3", "4", "5", "6", "7", "8", "9", ":", ";", "<", "=", ">", "?",
      "@", "A", "B", "C", "D", "E", "F", "G", "H", "I", "J", "K", "L", "M", "N", "O",
      "P", "Q", "R", "S", "T", "U", "V", "W", "X", "Y", "Z", "[", "\\", "]", "^", "_",
      "GRAVE", "a", "b", "c", "d", "e", "f", "g", "h", "i", "j", "k", "l", "m", "n", "o",
      "p", "q", "r", "s", "t", "u", "v", "w", "x", "y", "z", "{", "|", "}", "~">>

Ord(c) == 31 + (CHOOSE i \in 1..Len(Ascii) : Ascii[i] = c)

Chr(n) == Ascii[n - 31]

HexDigits == <<"0", "1", "2", "3", "4", "5", "6", "7", "8", "9", "A", "B", "C", "D", "E", "F">>

\* pat occurs in s at position i.
Occurs(pat, s, i) ==
    /\ i >= 1
    /\ i + Len(pat) - 1 <= Len(s)
    /\ pat # <<>> => s[i] = pat[1]
    /\ SubSeq(s, i, i + Len(pat) - 1) = pat

\* Python's `pat in s` on strings.
IsSubstring(pat, s) == \E i \in 1..(Len(s) + 1) : Occurs(pat, s, i)

EndsWith(s, suffix) == Occurs(suffix, s, Len(s) - Len(suffix) + 1)

(***************************************************************************)
(* str.format, str.join, str.replace                                       *)
(***************************************************************************)

\* A format string is a sequence of literal texts and replacement fields.
Lit(text) == [isField |-> FALSE, text |-> text]

Field(name) == [isField |-> TRUE, text |-> name]

RECURSIVE Format(_, _)
Format(template, args) ==
    IF template = <<>> THEN <<>>
    ELSE LET seg == Head(template)
         IN (IF seg.isField THEN args[seg.text] ELSE seg.text)
                \o Format(Tail(template), args)

RECURSIVE join(_, _)
join(sep, xs) ==
    IF xs = <<>> THEN <<>>
    ELSE IF Len(xs) = 1 THEN xs[1]
    ELSE xs[1] \o sep \o join(sep, Tail(xs))

Range(s) == {s[i] : i \in 1..Len(s)}

\* The concatenation of f[c] for the characters c of s, in order (by halves).
RECURSIVE FlatMap(_, _)
FlatMap(f, s) ==
    IF Len(s) = 0 THEN <<>>
    ELSE IF Len(s) = 1 THEN f[s[1]]
    ELSE LET h == Len(s) \div 2
         IN FlatMap(f, SubSeq(s, 1, h)) \o FlatMap(f, SubSeq(s, h + 1, Len(s)))

\* s.replace(c, by) for a single character c.
replace(s, c, by) == FlatMap([x \in Range(s) |-> IF x = c THEN by ELSE <<x>>], s)

(***************************************************************************)
(* The script's constants                                                  *)
(***************************************************************************)

TEMPLATE ==
    << Lit(<<"\n", "<", "!", "D", "O", "C", "T", "Y", "P", "E", " ", "h", "t", "m", "l", ">",
      "\n", "<", "h", "t", "m", "l", ">", "\n", " ", " ", "<", "h", "e", "a", "d", ">",
      "\n", " ", " ", " ", " ", "<", "m", "e", "t", "a", " ", "n", "a", "m", "e", "=",
      "\"", "p", "y", "p", "i", ":", "r", "e", "p", "o", "s", "i", "t", "o", "r", "y",
      "-", "v", "e", "r", "s", "i", "o", "n", "\"", " ", "c", "o", "n", "t", "e", "n",
      "t", "=", "\"", "1", ".", "0", "\"", ">", "\n", " ", " ", " ", " ", "<", "t", "i",
      "t", "l", "e", ">", "L", "i", "n", "k", "s", " ", "f", "o", "r", " ", "t", "a",
      "n", "t", "i", "v", "y", "_", "o", "c", "_", "f", "o", "r", "k", "<", "/", "t",
      "i", "t", "l", "e", ">", "\n", " ", " ", "<", "/", "h", "e", "a", "d", ">", "\n",
      "<", "/", "h", "t", "m", "l", ">", "\n", "<", "b", "o", "d", "y", ">", "\n", " ",
      " ", "<", "h", "1", ">", "L", "i", "n", "k", "s", " ", "f", "o", "r", " ", "t",
      "a", "n", "t", "i", "v", "y", "_", "o", "c", "_", "f", "o", "r", "k", "<", "/",
      "h", "1", ">", "\n", " ", " ">>),
       Field("links"),
       Lit(<<"\n", "<", "/", "b", "o", "d", "y", ">", "\n", "<", "/", "h", "t", "m", "l", ">",
      "\n">>) >>

DOWNLOAD_BASE_URL_TEMPLATE ==
    << Lit(<<"h", "t", "t", "p", "s", ":", "/", "/", "g", "i", "t", "h", "u", "b", ".", "c",
      "o", "m", "/", "o", "p", "e", "n", "c", "o", "l", "l", "e", "c", "t", "o", "r",
      "/", "t", "a", "n", "t", "i", "v", "y", "-", "p", "y", "/", "r", "e", "l", "e",
      "a", "s", "e", "s", "/", "d", "o", "w", "n", "l", "o", "a", "d", "/">>),
       Field("release"),
       Lit(<<"/">>),
       Field("file"),
       Lit(<<"#", "s", "h", "a", "2", "5", "6", "=">>),
       Field("digest") >>

LINK_TEMPLATE ==
    << Lit(<<"<", "a", " ", "h", "r", "e", "f", "=", "\"">>), Field("url"), Lit(<<"\"", ">">>), Field("name"),
       Lit(<<"<", "/", "a", ">">>) >>

\* The dict's items, in insertion order: k is the release tag, v the version.
RELEASES ==
    << [k |-> <<"o", "c", "-", "v", "0", ".", "1", "6", ".", "0", "-", "d", "e", "v", "0">>,
        v |-> <<"0", ".", "1", "6", ".", "0", ".", "d", "e", "v", "0">>],
       [k |-> <<"o", "c", "-", "v", "0", ".", "2", "2", ".", "0", "-", "d", "e", "v", "0">>,
        v |-> <<"0", ".", "2", "2", ".", "0", ".", "d", "e", "v", "0">>],
       [k |-> <<"o", "c", "-", "v", "0", ".", "1", "4", ".", "0">>,
        v |-> <<"0", ".", "1", "4", ".", "0">>] >>

\* The separator the anchors are joined with.
LinkSeparator == <<"\n", " ", " ">>

WheelsDir == <<"t", "a", "r", "g", "e", "t", "/", "w", "h", "e", "e", "l", "s">>

(***************************************************************************)
(* urllib.parse.quote, html.escape, hashlib.sha256                         *)
(***************************************************************************)

\* quote's always-safe characters: letters, digits and "_.-~".
AlwaysSafe ==
    {Chr(n) : n \in (48..57) \cup (65..90) \cup (97..122)} \cup {"_", ".", "-", "~"}

\* quote(string) with its default safe="/": every other character becomes
\* "%" and the two upper-case hex digits of its code.
QuoteChar(c) ==
    IF c \in AlwaysSafe \cup {"/"} THEN <<c>>
    ELSE <<"%", HexDigits[(Ord(c) \div 16) + 1], HexDigits[(Ord(c) % 16) + 1]>>

quote(s) == FlatMap([c \in Range(s) |-> QuoteChar(c)], s)

\* html.escape(s, quote=False): "&" is replaced first, then "<" and ">".
escapeMarkup(s) ==
    replace(replace(replace(s, "&", <<"&", "a", "m", "p", ";">>),
                    "<", <<"&", "l", "t", ";">>),
            ">", <<"&", "g", "t", ";">>)

\* A variant that leaves the two quote characters alone (quote=False).
escapeNoQuote(s) == escapeMarkup(s)

\* html.escape(s) with its default quote=True: then the two quote characters.
escape(s) ==
    replace(replace(escapeMarkup(s), "\"", <<"&", "q", "u", "o", "t", ";">>),
            "'", <<"&", "#", "x", "2", "7", ";">>)

\* The file contents explored, as byte sequences.
Contents == { <<>>, <<97>> }

\* hashlib.sha256(data).hexdigest(), tabulated on Contents.
sha256_hexdigest(data) ==
    CASE data = <<>> ->
           <<"e", "3", "b", "0", "c", "4", "4", "2", "9", "8", "f", "c", "1", "c", "1", "4",
      "9", "a", "f", "b", "f", "4", "c", "8", "9", "9", "6", "f", "b", "9", "2", "4",
      "2", "7", "a", "e", "4", "1", "e", "4", "6", "4", "9", "b", "9", "3", "4", "c",
      "a", "4", "9", "5", "9", "9", "1", "b", "7", "8", "5", "2", "b", "8", "5", "5">>
      [] data = <<97>> ->
           <<"c", "a", "9", "7", "8", "1", "1", "2", "c", "a", "1", "b", "b", "d", "c", "a",
      "f", "a", "c", "2", "3", "1", "b", "3", "9", "a", "2", "3", "d", "c", "4", "d",
      "a", "7", "8", "6", "e", "f", "f", "8", "1", "4", "7", "c", "4", "e", "7", "2",
      "b", "9", "8", "0", "7", "7", "8", "5", "a", "f", "e", "e", "4", "8", "b", "b">>

(***************************************************************************)
(* The directory                                                           *)
(***************************************************************************)

\* The names a directory entry may have.
Pool ==
    { <<"t", "-", "0", ".", "1", "4", ".", "0", ".", "w", "h", "l">>,
      <<"t", "-", "0", ".", "1", "6", ".", "0", ".", "d", "e", "v", "0", ".", "w", "h",
      "l">>,
      <<"T", "-", "0", ".", "2", "2", ".", "0", ".", "d", "e", "v", "0", ".", "w", "h",
      "l">>,
      <<"t", "-", "0", ".", "1", "5", ".", "0", ".", "w", "h", "l">>,
      <<"t", "-", "0", ".", "1", "6", ".", "0", ".", "w", "h", "l">>,
      <<"a", "&", "b", " ", "#", "?", "%", "<", "\"", "0", ".", "1", "4", ".", "0", "\"",
      ">", "'", ".", "w", "h", "l">>,
      <<"t", "-", "0", ".", "1", "4", ".", "0", "-", "0", ".", "2", "2", ".", "0", ".",
      "d", "e", "v", "0", ".", "w", "h", "l">>,
      <<"t", "-", "0", ".", "1", "4", ".", "0", ".", "z", "i", "p">> }

VARIABLES
    dirExists,  \* whether target/wheels exists
    entries,    \* the names of the entries of target/wheels
    content,    \* the bytes of each entry
    pc,         \* where the script is
    files,      \* sorted(glob): the names of the discovered files
    idx,        \* the position in files of the file the generators are at
    release,    \* the release tag matched to files[idx]
    links,      \* the anchors rendered so far
    stdout,     \* the text written to standard output
    exc,        \* the uncaught exception
    exitCode,   \* the exit status; -1 while the script runs
    matched,    \* per entry, how many times its release was looked up
    reads       \* per entry, how many times its bytes were read

vars == <<dirExists, entries, content, pc, files, idx, release, links, stdout,
          exc, exitCode, matched, reads>>

NoException == [type |-> "None", message |-> <<>>, filename |-> <<>>]

(***************************************************************************)
(* File discovery                                                          *)
(***************************************************************************)

\* A glob pattern that matches every name.
fnmatchAny(name) == TRUE

\* The pattern "*.whl": the name ends with ".whl".
fnmatch(name) == EndsWith(name, <<".", "w", "h", "l">>)

\* A directory listing that raises when the directory is missing.
globStrict(exists, names) ==
    [raised |-> ~exists, paths |-> {n \in names : fnmatch(n)}]

\* pathlib.Path.glob: the entries matching the pattern; a directory that does
\* not exist yields nothing and raises nothing.
glob(exists, names) ==
    [raised |-> FALSE,
     paths  |-> IF exists THEN {n \in names : fnmatch(n)} ELSE {}]

\* Comparison of two paths of one directory: of their names, by code point.
RECURSIVE LexLess(_, _)
LexLess(a, b) ==
    IF a = <<>> THEN b # <<>>
    ELSE IF b = <<>> THEN FALSE
    ELSE IF Head(a) = Head(b) THEN LexLess(Tail(a), Tail(b))
    ELSE Ord(Head(a)) < Ord(Head(b))

\* The elements of S in ascending order of their names, or in descending
\* order when `reverse`.
RECURSIVE sortedBy(_, _)
sortedBy(S, reverse) ==
    IF S = {} THEN <<>>
    ELSE LET m == CHOOSE x \in S : \A y \in S \ {x} :
                      IF reverse THEN LexLess(y, x) ELSE LexLess(x, y)
         IN <<m>> \o sortedBy(S \ {m}, reverse)

\* sorted(..., reverse=True)
sortedReverse(S) == sortedBy(S, TRUE)

\* sorted(...)
sorted(S) == sortedBy(S, FALSE)

(***************************************************************************)
(* Release matching                                                        *)
(***************************************************************************)

\* [k for k, v in RELEASES.items() if v in f.name]
MatchingReleases(name) ==
    LET hits == SelectSeq(RELEASES, LAMBDA e : IsSubstring(e.v, name))
    IN [i \in 1..Len(hits) |-> hits[i].k]

\* A lookup that falls back on the table's first release.
CandidatesOrDefault(name) ==
    IF MatchingReleases(name) = <<>> THEN <<RELEASES[1].k>>
    ELSE MatchingReleases(name)

Candidates(name) == MatchingReleases(name)

Last(xs) == xs[Len(xs)]

\* xs[0]
First(xs) == xs[1]

\* An error that names the file.
NamingError(name) ==
    [type |-> "IndexError", message |-> <<"n", "o", " ", "r", "e", "l", "e", "a", "s", "e", " ", "m", "a", "t", "c", "h",
      "e", "s", " ">> \o name,
     filename |-> <<>>]

\* What [...][0] raises on the empty list.
IndexError(name) ==
    [type |-> "IndexError", message |-> <<"l", "i", "s", "t", " ", "i", "n", "d", "e", "x", " ", "o", "u", "t", " ", "o",
      "f", " ", "r", "a", "n", "g", "e">>,
     filename |-> <<>>]

(***************************************************************************)
(* Reading                                                                 *)
(***************************************************************************)

\* The OSErrors read_bytes may raise: the file is gone, unreadable, or a
\* directory.
ReadErrors ==
    { [type |-> "FileNotFoundError", message |-> <<"N", "o", " ", "s", "u", "c", "h", " ", "f", "i", "l", "e", " ", "o", "r", " ",
      "d", "i", "r", "e", "c", "t", "o", "r", "y">>],
      [type |-> "PermissionError", message |-> <<"P", "e", "r", "m", "i", "s", "s", "i", "o", "n", " ", "d", "e", "n", "i", "e",
      "d">>],
      [type |-> "IsADirectoryError", message |-> <<"I", "s", " ", "a", " ", "d", "i", "r", "e", "c", "t", "o", "r", "y">>] }

OSError(e, name) ==
    [type |-> e.type, message |-> e.message, filename |-> WheelsDir \o <<"/">> \o name]

\* The error of listing a directory that does not exist.
DirectoryNotFound ==
    [type |-> "FileNotFoundError", message |-> <<"N", "o", " ", "s", "u", "c", "h", " ", "f", "i", "l", "e", " ", "o", "r", " ",
      "d", "i", "r", "e", "c", "t", "o", "r", "y">>,
     filename |-> WheelsDir]

\* Reads the bytes of the first discovered file, whatever the file asked for.
read_bytes_first(name) == content[files[1]]

\* f.read_bytes()
read_bytes(name) == content[name]

(***************************************************************************)
(* Rendering                                                               *)
(***************************************************************************)

\* The anchor of file `name` of release `rel` whose bytes are `data`.
Link(rel, name, data) ==
    Format(LINK_TEMPLATE,
           [url  |-> escape(Format(DOWNLOAD_BASE_URL_TEMPLATE,
                                   [release |-> quote(rel),
                                    file    |-> quote(name),
                                    digest  |-> quote(sha256_hexdigest(data))])),
            name |-> escape(name)])

\* The generator stops after its first item.
ExhaustedAfterFirst(i, fs) == i > 1 \/ i > Len(fs)

\* The generator stops one item early.
ExhaustedEarly(i, fs) == i >= Len(fs)

\* The generator over the sorted files has nothing left.
Exhausted(i, fs) == i > Len(fs)

(***************************************************************************)
(* The script                                                              *)
(***************************************************************************)

Init ==
    /\ dirExists \in BOOLEAN
    /\ entries \in (IF dirExists
                    THEN {S \in SUBSET Pool : Cardinality(S) <= MaxFiles}
                    ELSE {{}})
    /\ content \in [entries -> Contents]
    /\ pc = "start"
    /\ files = <<>>
    /\ idx = 1
    /\ release = <<>>
    /\ links = <<>>
    /\ stdout = <<>>
    /\ exc = NoException
    /\ exitCode = -1
    /\ matched = [n \in entries |-> 0]
    /\ reads = [n \in entries |-> 0]

\* An uncaught exception: the traceback goes to standard error, the exit
\* status is 1 and nothing is written to standard output.
Raise(e) ==
    /\ pc' = "failed"
    /\ exc' = e
    /\ exitCode' = 1
    /\ stdout' = stdout

\* sorted(pathlib.Path("target/wheels").glob("*.whl")): evaluated once, when
\* the inner generator expression is created.
Discover ==
    /\ pc = "start"
    /\ LET found == glob(dirExists, entries)
       IN IF found.raised
          THEN /\ Raise(DirectoryNotFound)
               /\ files' = files
          ELSE /\ files' = sorted(found.paths)
               /\ pc' = "next"
               /\ UNCHANGED <<exc, exitCode, stdout>>
    /\ UNCHANGED <<dirExists, entries, content, idx, release, links, matched, reads>>

\* The inner generator's next item: the release of the next file.
MatchRelease ==
    /\ pc = "next"
    /\ ~Exhausted(idx, files)
    /\ LET name == files[idx]
       IN /\ matched' = [matched EXCEPT ![name] = @ + 1]
          /\ IF Candidates(name) = <<>>
             THEN /\ Raise(IndexError(name))
                  /\ release' = release
             ELSE /\ release' = First(Candidates(name))
                  /\ pc' = "render"
                  /\ UNCHANGED <<exc, exitCode, stdout>>
    /\ UNCHANGED <<dirExists, entries, content, files, idx, links, reads>>

\* The outer generator's next item: the file is read and its anchor rendered.
RenderLink ==
    /\ pc = "render"
    /\ LET name == files[idx]
       IN /\ reads' = [reads EXCEPT ![name] = @ + 1]
          /\ links' = Append(links, Link(release, name, read_bytes(name)))
    /\ idx' = idx + 1
    /\ pc' = "next"
    /\ UNCHANGED <<dirExists, entries, content, files, release, stdout, exc,
                   exitCode, matched>>

\* f.read_bytes() raises.
ReadFails ==
    /\ pc = "render"
    /\ \E e \in ReadErrors : Raise(OSError(e, files[idx]))
    /\ UNCHANGED <<dirExists, entries, content, files, idx, release, links,
                   matched, reads>>

\* print(TEMPLATE.format(links="\n  ".join(...))): the page and print's newline.
print ==
    /\ pc = "next"
    /\ Exhausted(idx, files)
    /\ stdout' = Format(TEMPLATE, [links |-> join(LinkSeparator, links)]) \o <<"\n">>
    /\ exitCode' = 0
    /\ pc' = "done"
    /\ UNCHANGED <<dirExists, entries, content, files, idx, release, links, exc,
                   matched, reads>>

Next == Discover \/ MatchRelease \/ RenderLink \/ ReadFails \/ print

Spec == Init /\ [][Next]_vars

(***************************************************************************)
(* Reading the page back: the anchors of a text, and the decoding of       *)
(* entities and percent-escapes.                                           *)
(***************************************************************************)

Terminated == pc \in {"done", "failed"}

\* The input set: the directory's entries named *.whl.
Wheels == {n \in entries : Len(n) >= 4 /\ SubSeq(n, Len(n) - 3, Len(n)) = <<".", "w", "h", "l">>}

\* The positions in the release table of the versions that occur in a name.
VersionsIn(name) == {i \in 1..Len(RELEASES) : IsSubstring(RELEASES[i].v, name)}

Unmatched == {n \in Wheels : VersionsIn(n) = {}}

Positions(pat, s) == {i \in 1..Len(s) : Occurs(pat, s, i)}

\* The first position of pat in s at or after `from`; Len(s) + 1 if there is none.
FirstAt(pat, s, from) ==
    LET P == {i \in Positions(pat, s) : i >= from}
    IN IF P = {} THEN Len(s) + 1 ELSE CHOOSE i \in P : \A j \in P : i <= j

\* The k-th smallest element of a set of numbers.
Kth(P, k) == CHOOSE i \in P : Cardinality({j \in P : j < i}) = k - 1

AnchorOpen == <<"<", "a", " ", "h", "r", "e", "f", "=", "\"">>

AnchorMid == <<"\"", ">">>

AnchorClose == <<"<", "/", "a", ">">>

AnchorAt(s, i) ==
    LET hs == i + Len(AnchorOpen)
        he == FirstAt(AnchorMid, s, hs)
        ts == he + Len(AnchorMid)
        te == FirstAt(AnchorClose, s, ts)
    IN [href |-> SubSeq(s, hs, he - 1), text |-> SubSeq(s, ts, te - 1)]

\* The anchors of a text, in the order they appear in it.
Anchors(s) ==
    LET P == Positions(AnchorOpen, s)
    IN [k \in 1..Cardinality(P) |-> AnchorAt(s, Kth(P, k))]

Entities ==
    << [text |-> <<"&", "a", "m", "p", ";">>, char |-> "&"],
       [text |-> <<"&", "l", "t", ";">>, char |-> "<"],
       [text |-> <<"&", "g", "t", ";">>, char |-> ">"],
       [text |-> <<"&", "q", "u", "o", "t", ";">>, char |-> "\""],
       [text |-> <<"&", "#", "x", "2", "7", ";">>, char |-> "'"] >>

EntitiesAt(s, i) == {e \in 1..Len(Entities) : Occurs(Entities[e].text, s, i)}

\* The text an HTML parser reads: each entity replaced by its character.
RECURSIVE unescape(_)
unescape(s) ==
    IF s = <<>> THEN <<>>
    ELSE IF EntitiesAt(s, 1) # {}
    THEN LET e == Entities[CHOOSE e \in EntitiesAt(s, 1) : TRUE]
         IN <<e.char>> \o unescape(SubSeq(s, Len(e.text) + 1, Len(s)))
    ELSE <<Head(s)>> \o unescape(Tail(s))

HexValue(c) == (CHOOSE i \in 1..Len(HexDigits) : HexDigits[i] = c) - 1

\* Percent-decoding.
RECURSIVE unquote(_)
unquote(s) ==
    IF s = <<>> THEN <<>>
    ELSE IF Head(s) = "%" /\ Len(s) >= 3 /\ s[2] \in Range(HexDigits)
            /\ s[3] \in Range(HexDigits)
    THEN <<Chr(16 * HexValue(s[2]) + HexValue(s[3]))>> \o unquote(SubSeq(s, 4, Len(s)))
    ELSE <<Head(s)>> \o unquote(Tail(s))

BasePrefix == <<"h", "t", "t", "p", "s", ":", "/", "/", "g", "i", "t", "h", "u", "b", ".", "c",
      "o", "m", "/", "o", "p", "e", "n", "c", "o", "l", "l", "e", "c", "t", "o", "r",
      "/", "t", "a", "n", "t", "i", "v", "y", "-", "p", "y", "/", "r", "e", "l", "e",
      "a", "s", "e", "s", "/", "d", "o", "w", "n", "l", "o", "a", "d", "/">>

Fragment == <<"#", "s", "h", "a", "2", "5", "6", "=">>

\* The components of a URL of the shape {BasePrefix}{release}/{file}#sha256={digest}.
UrlParts(href) ==
    LET slash == FirstAt(<<"/">>, href, Len(BasePrefix) + 1)
        hash  == FirstAt(Fragment, href, slash + 1)
    IN [release |-> SubSeq(href, Len(BasePrefix) + 1, slash - 1),
        file    |-> SubSeq(href, slash + 1, hash - 1),
        digest  |-> SubSeq(href, hash + Len(Fragment), Len(href))]

Count(c, s) == Cardinality({i \in 1..Len(s) : s[i] = c})

PageAnchors == Anchors(stdout)

\* The file names the page's anchors show, in page order.
PageNames ==
    LET as == PageAnchors
    IN [i \in 1..Len(as) |-> unescape(as[i].text)]

PageHead == <<"\n", "<", "!", "D", "O", "C", "T", "Y", "P", "E", " ", "h", "t", "m", "l", ">",
      "\n", "<", "h", "t", "m", "l", ">", "\n", " ", " ", "<", "h", "e", "a", "d", ">",
      "\n", " ", " ", " ", " ", "<", "m", "e", "t", "a", " ", "n", "a", "m", "e", "=",
      "\"", "p", "y", "p", "i", ":", "r", "e", "p", "o", "s", "i", "t", "o", "r", "y",
      "-", "v", "e", "r", "s", "i", "o", "n", "\"", " ", "c", "o", "n", "t", "e", "n",
      "t", "=", "\"", "1", ".", "0", "\"", ">", "\n", " ", " ", " ", " ", "<", "t", "i",
      "t", "l", "e", ">", "L", "i", "n", "k", "s", " ", "f", "o", "r", " ", "t", "a",
      "n", "t", "i", "v", "y", "_", "o", "c", "_", "f", "o", "r", "k", "<", "/", "t",
      "i", "t", "l", "e", ">", "\n", " ", " ", "<", "/", "h", "e", "a", "d", ">", "\n",
      "<", "/", "h", "t", "m", "l", ">", "\n", "<", "b", "o", "d", "y", ">", "\n", " ",
      " ", "<", "h", "1", ">", "L", "i", "n", "k", "s", " ", "f", "o", "r", " ", "t",
      "a", "n", "t", "i", "v", "y", "_", "o", "c", "_", "f", "o", "r", "k", "<", "/",
      "h", "1", ">", "\n", " ", " ">>

PageTail == <<"\n", "<", "/", "b", "o", "d", "y", ">", "\n", "<", "/", "h", "t", "m", "l", ">",
      "\n">>

\* The page without any link, as print writes it.
EmptyPage == PageHead \o PageTail \o <<"\n">>

(***************************************************************************)
(* Properties                                                              *)
(***************************************************************************)

\* C1: when every .whl file of the directory matches a release-table entry,
\* the printed page holds exactly one anchor per .whl file (none missing,
\* none twice, none for anything else), in lexicographic order of the names.
C1_OneAnchorPerFileInOrder ==
    (pc = "done" /\ Unmatched = {}) =>
        LET names == PageNames
        IN /\ Len(names) = Cardinality(Wheels)
           /\ Range(names) = Wheels
           /\ \A i \in 1..(Len(names) - 1) : LexLess(names[i], names[i + 1])

C1_Witness ==
    /\ pc = "done"
    /\ Cardinality(Wheels) >= 2
    /\ entries # Wheels
    /\ Len(PageAnchors) >= 2

\* C2: when some .whl file's name holds none of the table's versions, no
\* page is ever printed and the run can only end aborted, with a non-zero
\* exit status, wherever the file sorts and however many others match.
C2_UnmatchedFileAborts ==
    Unmatched # {} =>
        /\ stdout = <<>>
        /\ pc # "done"
        /\ pc = "failed" => exitCode > 0

C2_Witness ==
    /\ pc = "failed"
    /\ exc.type = "IndexError"
    /\ Cardinality(Wheels) >= 3
    /\ Cardinality(Unmatched) = 1
    /\ idx >= 2
    /\ idx < Len(files)

C4_DigestOfSameFile ==
    pc = "done" =>
        LET as    == PageAnchors
            names == PageNames
        IN \A i \in 1..Len(as) :
               LET name  == names[i]
                   parts == UrlParts(as[i].href)
               IN /\ name \in Wheels
                  /\ unquote(parts.file) = name
                  /\ parts.digest = sha256_hexdigest(content[name])
                  /\ \E r \in VersionsIn(name) :
                         RELEASES[r].k = unquote(parts.release)

C4_Witness ==
    /\ pc = "done"
    /\ \E m, n \in Wheels : content[m] # content[n]
    /\ Len(PageAnchors) >= 2

\* C5: the release of a file is the first entry of the release table, in
\* table order, whose version occurs anywhere in the file's name, also when
\* several entries match: both when it is matched and in the printed URL.
IsFirstMatch(tag, name) ==
    \E r \in VersionsIn(name) :
        /\ RELEASES[r].k = tag
        /\ \A q \in VersionsIn(name) : r <= q

C5_FirstMatchInTableOrder ==
    /\ pc = "render" => IsFirstMatch(release, files[idx])
    /\ pc = "done" =>
           LET as    == PageAnchors
               names == PageNames
           IN \A i \in 1..Len(as) :
                  IsFirstMatch(unquote(UrlParts(as[i].href).release), names[i])

C5_Witness ==
    /\ pc = "done"
    /\ LET names == PageNames
       IN \E i \in 1..Len(names) : Cardinality(VersionsIn(names[i])) >= 2

\* C6: when the directory exists and holds no .whl file, the run never
\* aborts; it prints the template with an empty link section, no anchor at
\* all, and the exit status is 0.
C6_NoFilesEmptyPage ==
    (dirExists /\ Wheels = {}) =>
        /\ pc # "failed"
        /\ pc = "done" =>
               /\ stdout = EmptyPage
               /\ Positions(AnchorOpen, stdout) = {}
               /\ exitCode = 0

C6_Witness == dirExists /\ Wheels = {} /\ entries # {} /\ pc = "done"

\* C7: in every anchor of the printed page, the href holds no raw "&", "<",
\* ">", quote or space: each is percent-encoded, the URL keeps the shape
\* {base}{release}/{file}#sha256={digest} with one "#", and decoding the file
\* component gives the file's name; in the anchor text no "<", ">" or quote
\* is left and every "&" opens an entity, so the page has no other tag or
\* attribute delimiter than the template's and the anchors' own.
HtmlSpecial == {"&", "<", ">", "\"", "'", " "}

C7_EscapedAndEncoded ==
    pc = "done" =>
        LET as == PageAnchors
        IN /\ Len(as) = Len(files)
           /\ \A i \in 1..Len(as) :
                  LET href == as[i].href
                      text == as[i].text
                      name == files[i]
                      file == UrlParts(href).file
                      rel  == UrlParts(href).release
                  IN /\ Range(href) \cap HtmlSpecial = {}
                     /\ \E r \in 1..Len(RELEASES) : unquote(rel) = RELEASES[r].k
                     /\ Occurs(BasePrefix, href, 1)
                     /\ Count("/", href) = Count("/", BasePrefix) + 1
                     /\ Count("#", href) = 1
                     /\ Count("?", href) = 0
                     /\ unquote(file) = name
                     /\ Len(file) = Len(name)
                            + 2 * Cardinality({j \in 1..Len(name) :
                                                  name[j] \notin AlwaysSafe})
                     /\ Range(text) \cap {"<", ">", "\"", "'"} = {}
                     /\ \A j \in 1..Len(text) :
                            text[j] = "&" => EntitiesAt(text, j) # {}
                     /\ unescape(text) = name
           /\ Count("<", stdout) = Count("<", EmptyPage) + 2 * Len(files)
           /\ Count("\"", stdout) = Count("\"", EmptyPage) + 2 * Len(files)

C7_Witness ==
    /\ pc = "done"
    /\ \E i \in 1..Len(files) : {"&", "<", "\"", " "} \subseteq Range(files[i])
    /\ Len(files) >= 2

\* The first file, in sorted order, whose name matches no release.
FirstUnmatched == CHOOSE n \in Unmatched : \A m \in Unmatched \ {n} : LexLess(n, m)

Mentions(e, name) == IsSubstring(name, e.message) \/ IsSubstring(name, e.filename)

\* C8 as stated: when some file matches no release, the run aborts with an
\* error that names the first such file in sorted order.
C8_ErrorNamesFile ==
    (Terminated /\ Unmatched # {}) =>
        /\ pc = "failed"
        /\ Mentions(exc, FirstUnmatched)

OutOfRangeMessage == <<"l", "i", "s", "t", " ", "i", "n", "d", "e", "x", " ", "o", "u", "t", " ", "o",
      "f", " ", "r", "a", "n", "g", "e">>

\* C8 amended: when some file matches no release and no earlier file's read
\* fails, the run aborts at the first such file in sorted order with
\* IndexError "list index out of range", which does not name the file.
C8_IndexErrorAtFirstUnmatched ==
    /\ (pc = "failed" /\ exc.type = "IndexError") =>
           /\ Unmatched # {}
           /\ files[idx] = FirstUnmatched
           /\ exc.message = OutOfRangeMessage
           /\ \A n \in entries : ~Mentions(exc, n)
    /\ (Terminated /\ Unmatched # {}) =>
           /\ pc = "failed"
           /\ \/ exc.type = "IndexError"
              \/ /\ exc.type \in {e.type : e \in ReadErrors}
                 /\ LexLess(files[idx], FirstUnmatched)

C8_Witness ==
    /\ pc = "failed"
    /\ exc.type = "IndexError"
    /\ Cardinality(Unmatched) >= 2
    /\ idx >= 2

\* C9: standard output is empty or holds the complete page at every point of
\* every run: it is written only once every discovered file has been matched
\* and read, and a run that aborts, also on a failed read after other files
\* were rendered, leaves it empty.
C9_AllOrNothing ==
    /\ pc # "done" => stdout = <<>>
    /\ stdout # <<>> =>
           /\ Occurs(PageHead, stdout, 1)
           /\ EndsWith(stdout, PageTail \o <<"\n">>)
           /\ Len(PageAnchors) = Cardinality(Wheels)
           /\ Range(PageNames) = Wheels
           /\ \A n \in Wheels : matched[n] = 1 /\ reads[n] = 1

C9_Witness ==
    /\ pc = "failed"
    /\ exc.type \in {e.type : e \in ReadErrors}
    /\ idx >= 2
    /\ links # <<>>
    /\ stdout = <<>>

\* C10: the files are processed in sorted order, each matched before it is
\* read: when the run aborts on a file, that file was matched once and not
\* read, no later file was matched or read, and every earlier file was
\* matched and read exactly once; a successful run reads every discovered
\* file exactly once, and nothing else is ever read.
C10_SortedOrderMatchBeforeRead ==
    /\ \A n \in entries : reads[n] <= matched[n] /\ matched[n] <= 1
    /\ \A n \in entries \ Wheels : matched[n] = 0
    /\ pc = "failed" =>
           LET cur == files[idx]
           IN /\ matched[cur] = 1
              /\ reads[cur] = 0
              /\ \A n \in Wheels :
                     /\ LexLess(cur, n) => (matched[n] = 0 /\ reads[n] = 0)
                     /\ LexLess(n, cur) => (matched[n] = 1 /\ reads[n] = 1)
    /\ pc = "done" => \A n \in Wheels : matched[n] = 1 /\ reads[n] = 1

C10_Witness ==
    /\ pc = "failed"
    /\ Len(files) >= 3
    /\ idx = 2

=============================================================================
